---------------------------- MODULE Spec2Model ----------------------------
(***************************************************************************)
(* Wall of Signers: the list-preparation pipeline (constants.ts), the      *)
(* scroll engine (WallOfNames) and the playback state machine of the two   *)
(* hosts (the inline App and the SignersOverlay).                          *)
(*                                                                         *)
(* Several specifications share the module.  SpecCsv runs one call of      *)
(* fetchCsvWallOfNames on every CSV text up to MaxLen characters and on    *)
(* every way the fetch can fail; SpecShuffle runs shuffleArray on every    *)
(* list of up to MaxNames names.  Spec runs the mounted widget: React      *)
(* state, effects and their cleanups, animation frames, timers, keys;      *)
(* SpecFixedExtent is Spec without layout changes.  SpecEntry runs the     *)
(* entry script of index.tsx and the App it renders.  SpecScroll is the    *)
(* scroll loop with every requested frame run, SpecReducedMotion the       *)
(* widget under a reduced-motion preference with no toggle by the user,    *)
(* and SpecLoad is App's load with the call of fetchCsvWallOfNames         *)
(* followed step by step, every await settling.                            *)
(***************************************************************************)
EXTENDS Integers, Sequences, FiniteSets, TLC

\* Longest CSV text explored, in characters.
MaxLen == 5

VARIABLES
    \* ---- one call of fetchCsvWallOfNames ----
    pc,                  \* position in the async function
    server,              \* what the network will answer: [kind, text]
    csvString,           \* await response.text()
    preformattedNames,   \* parseCsv(csvString), the array handed to shuffleArray
    newArr,              \* shuffleArray's working copy
    i,                   \* shuffleArray's loop index (1-based)
    settled,             \* the returned promise: "pending", "fulfilled", "rejected"
    result,              \* the value the promise resolved to
    logged,              \* number of console.error calls
    \* ---- the mounted widget ----
    variant,             \* "inline" (App) or "overlay" (SignersOverlay)
    strict,              \* development build: StrictMode runs each mount effect twice
    reducedMotion,       \* matchMedia('(prefers-reduced-motion: reduce)').matches
    mounted,             \* the host component (App or SignersOverlay) is mounted
    isPlaying,           \* the host's isPlaying state, WallOfNames' prop
    isVisible,           \* SignersOverlay's isVisible prop
    onClose,             \* identity of the onClose function SignersOverlay was given
    keyListeners,        \* handleKeyDown listeners registered on window
    bodyOverflow,        \* document.body.style.overflow
    timers,              \* pending closeAndReset timeouts, oldest first
    defaultPrevented,    \* defaultPrevented of the last keydown dispatched
    isLoading,           \* App's isLoading state
    names,               \* App's names state
    csvUrl,              \* App's csvUrl prop
    inflight,            \* urls of the loadCsvNames calls still awaiting
    wallMounted,         \* WallOfNames is mounted
    animationFrameIdRef, \* animationFrameIdRef.current (0 is null)
    rafQueue,            \* handles of the scrollStep callbacks pending
    scrollTop,           \* the scroll container's scrollTop, in quarter pixels
    scrollHeight,        \* its scrollHeight, in pixels
    clientHeight,        \* its clientHeight, in pixels
    sinceReset,          \* ticks run since the cursor was last reset to 0 or laid out
    \* ---- the entry point (index.tsx) ----
    config,              \* window.WALL_OF_SIGNERS_CONFIG: [targetSelector, csvUrl]
    dom,                 \* the selectors that match an element of the page
    entryDone,           \* the entry script has run
    renders              \* number of root.render calls

csvVars == <<pc, server, csvString, preformattedNames, newArr, i, settled, result, logged>>

buildVars == <<variant, strict>>
loadVars == <<isLoading, names, csvUrl, inflight>>
overlayVars == <<isVisible, onClose, bodyOverflow, timers>>
layoutVars == <<scrollHeight, clientHeight>>
wallVars == <<wallMounted, animationFrameIdRef, rafQueue, scrollTop, scrollHeight,
              clientHeight, sinceReset>>

uiVars == <<variant, strict, reducedMotion, mounted, isPlaying, isVisible, onClose,
            keyListeners, bodyOverflow, timers, defaultPrevented, isLoading, names, csvUrl,
            inflight, wallMounted, animationFrameIdRef, rafQueue, scrollTop, scrollHeight,
            clientHeight, sinceReset>>

entryVars == <<config, dom, entryDone, renders>>

vars == <<csvVars, uiVars, entryVars>>

--------------------------------------------------------------------------
(* Strings are sequences of one-character strings.                         *)

Chars == {"a", "b", " ", "\n", "\r"}

\* The characters String.prototype.trim removes, among Chars.
Whitespace == {" ", "\n", "\r"}

Texts == UNION {[1..n -> Chars] : n \in 0..MaxLen}

\* s.trim() === ''
IsBlank(s) == \A k \in 1..Len(s) : s[k] \in Whitespace

RECURSIVE TrimStart(_)
TrimStart(s) ==
    IF s # <<>> /\ Head(s) \in Whitespace THEN TrimStart(Tail(s)) ELSE s

RECURSIVE TrimEnd(_)
TrimEnd(s) ==
    IF s # <<>> /\ s[Len(s)] \in Whitespace
    THEN TrimEnd(SubSeq(s, 1, Len(s) - 1))
    ELSE s

\* String.prototype.trim
Trim(s) == TrimEnd(TrimStart(s))

\* s.split('\n'): always at least one piece, the empty text gives <<"">>.
RECURSIVE Split(_)
Split(s) ==
    IF \E k \in 1..Len(s) : s[k] = "\n"
    THEN LET k == CHOOSE k \in 1..Len(s) :
                      /\ s[k] = "\n"
                      /\ \A m \in 1..(k - 1) : s[m] # "\n"
         IN  <<SubSeq(s, 1, k - 1)>> \o Split(SubSeq(s, k + 1, Len(s)))
    ELSE <<s>>

\* A parse that forgets slice(1).
parseCsvKeepHeader(text) ==
    SelectSeq(Split(Trim(text)), LAMBDA name : ~IsBlank(name))

\* parseCsv: trim the whole text, split on newlines, drop the first line,
\* keep the lines whose trim is not empty (the lines themselves, untrimmed).
parseCsv(text) ==
    LET lines == Split(Trim(text))
    IN  SelectSeq(Tail(lines), LAMBDA name : ~IsBlank(name))

\* An exchange that loses newArr[i].
SwapOverwrite(arr, a, b) == [arr EXCEPT ![a] = arr[b]]

\* [newArr[i], newArr[j]] = [newArr[j], newArr[i]]
Swap(arr, a, b) == [arr EXCEPT ![a] = arr[b], ![b] = arr[a]]

\* Array(20).fill(...)
RepeatCount == 20

\* A fill that keeps one copy only.
RepeatOnce(n, list) == list

\* Array(n).fill(list).flat()
RECURSIVE Repeat(_, _)
Repeat(n, list) == IF n = 0 THEN <<>> ELSE list \o Repeat(n - 1, list)

\* A loop-prep that forgets the second copy.
PrepareSingle(shuffledNames) == Repeat(RepeatCount, shuffledNames)

\* [...repeatedCsvNames, ...repeatedCsvNames]
Prepare(shuffledNames) ==
    LET repeatedCsvNames == Repeat(RepeatCount, shuffledNames)
    IN  repeatedCsvNames \o repeatedCsvNames

--------------------------------------------------------------------------
(* fetchCsvWallOfNames, one action per await and per loop iteration.       *)

\* The CSV of the documented example, 'name\nAlice\nBob\n\n', and its rows.
ExampleCsv ==
    <<"n", "a", "m", "e", "\n", "A", "l", "i", "c", "e", "\n", "B", "o", "b", "\n", "\n">>

Alice == <<"A", "l", "i", "c", "e">>
Bob == <<"B", "o", "b">>

ServerAnswers ==
    {[kind |-> k, text |-> <<>>] : k \in {"networkError", "notOk", "bodyError"}}
    \cup {[kind |-> "ok", text |-> t] : t \in Texts \cup {ExampleCsv}}

\* The widget before anything is mounted.
UiIdle ==
    /\ variant = "inline"
    /\ strict = FALSE
    /\ reducedMotion = FALSE
    /\ mounted = FALSE
    /\ isPlaying = TRUE
    /\ isVisible = FALSE
    /\ onClose = 1
    /\ keyListeners = 0
    /\ bodyOverflow = ""
    /\ timers = <<>>
    /\ defaultPrevented = FALSE
    /\ isLoading = TRUE
    /\ names = "initial"
    /\ csvUrl = 1
    /\ inflight = <<>>
    /\ wallMounted = FALSE
    /\ animationFrameIdRef = 0
    /\ rafQueue = {}
    /\ scrollTop = 0
    /\ scrollHeight = 0
    /\ clientHeight = 0
    /\ sinceReset = 0

\* The entry script is not followed: the host page mounts the widget itself.
EntryIdle ==
    /\ config = [targetSelector |-> "", csvUrl |-> 1]
    /\ dom = {"#root"}
    /\ entryDone = TRUE
    /\ renders = 0

\* No call of fetchCsvWallOfNames is being followed step by step.
CsvIdle ==
    /\ pc = "idle"
    /\ server = [kind |-> "ok", text |-> <<>>]
    /\ csvString = <<>>
    /\ preformattedNames = <<>>
    /\ newArr = <<>>
    /\ i = 0
    /\ settled = "pending"
    /\ result = <<>>
    /\ logged = 0

InitCsv ==
    /\ pc = "fetch"
    /\ server \in ServerAnswers
    /\ csvString = <<>>
    /\ preformattedNames = <<>>
    /\ newArr = <<>>
    /\ i = 0
    /\ settled = "pending"
    /\ result = <<>>
    /\ logged = 0
    /\ UiIdle
    /\ EntryIdle

\* A catch clause that rethrows.
CatchRethrow ==
    /\ pc' = "done"
    /\ logged' = logged + 1
    /\ settled' = "rejected"
    /\ result' = <<>>

\* catch (error) { console.error(...); return []; }
Catch ==
    /\ pc' = "done"
    /\ logged' = logged + 1
    /\ settled' = "fulfilled"
    /\ result' = <<>>

\* const response = await fetch(url); if (!response.ok) { log; return [] }
AwaitFetch ==
    /\ pc = "fetch"
    /\ \/ /\ server.kind = "networkError"
          /\ Catch
       \/ /\ server.kind = "notOk"
          /\ pc' = "done"
          /\ logged' = logged + 1
          /\ settled' = "fulfilled"
          /\ result' = <<>>
       \/ /\ server.kind \in {"ok", "bodyError"}
          /\ pc' = "text"
          /\ UNCHANGED <<logged, settled, result>>
    /\ UNCHANGED <<server, csvString, preformattedNames, newArr, i>>
    /\ UNCHANGED uiVars
    /\ UNCHANGED entryVars

\* const csvString = await response.text();
\* const preformattedNames = parseCsv(csvString);
\* shuffleArray: const newArr = [...array]; i = newArr.length - 1
AwaitText ==
    /\ pc = "text"
    /\ \/ /\ server.kind = "bodyError"
          /\ Catch
          /\ UNCHANGED <<csvString, preformattedNames, newArr, i>>
       \/ /\ server.kind = "ok"
          /\ csvString' = server.text
          /\ preformattedNames' = parseCsv(server.text)
          /\ newArr' = preformattedNames'
          /\ i' = Len(newArr')
          /\ pc' = "shuffle"
          /\ UNCHANGED <<logged, settled, result>>
    /\ UNCHANGED server
    /\ UNCHANGED uiVars
    /\ UNCHANGED entryVars

\* for (i = length - 1; i > 0; i--) { j = floor(random() * (i + 1)); swap }
\* (indices are 1-based here: i runs from Len down to 2, j over 1..i)
ShuffleStep ==
    /\ pc = "shuffle"
    /\ i > 1
    /\ \E j \in 1..i : newArr' = Swap(newArr, i, j)
    /\ i' = i - 1
    /\ UNCHANGED <<pc, server, csvString, preformattedNames, settled, result, logged>>
    /\ UNCHANGED uiVars
    /\ UNCHANGED entryVars

\* return newArr; repeat 20 times; duplicate; return
Return ==
    /\ pc = "shuffle"
    /\ i <= 1
    /\ result' = Prepare(newArr)
    /\ settled' = "fulfilled"
    /\ pc' = "done"
    /\ UNCHANGED <<server, csvString, preformattedNames, newArr, i, logged>>
    /\ UNCHANGED uiVars
    /\ UNCHANGED entryVars

NextCsv ==
    \/ AwaitFetch
    \/ AwaitText
    \/ ShuffleStep
    \/ Return

SpecCsv == InitCsv /\ [][NextCsv]_vars

\* Longest list handed to shuffleArray on its own, and the names it holds.
MaxNames == 3

Names == {<<"a">>, <<"b">>, <<"a", "\r">>}

NameLists == UNION {[1..n -> Names] : n \in 0..MaxNames}

\* shuffleArray(array) called on any list: array is preformattedNames.
InitShuffle ==
    /\ pc = "shuffle"
    /\ server = [kind |-> "ok", text |-> <<>>]
    /\ csvString = <<>>
    /\ preformattedNames \in NameLists
    /\ newArr = preformattedNames
    /\ i = Len(preformattedNames)
    /\ settled = "pending"
    /\ result = <<>>
    /\ logged = 0
    /\ UiIdle
    /\ EntryIdle

NextShuffle ==
    \/ ShuffleStep
    \/ Return

SpecShuffle == InitShuffle /\ [][NextShuffle]_vars

--------------------------------------------------------------------------
(* The mounted widget.  A React state update, the render it causes and the *)
(* effect cleanups and effects whose dependencies changed are one step:    *)
(* they complete before the browser runs the next animation frame, timer   *)
(* or input event.  Awaits, timeouts and animation frames are steps of     *)
(* their own.                                                              *)

\* Tallest scroll container and content explored, in pixels.
MaxHeight == 3

\* Most closeAndReset timeouts pending at once.
MaxTimers == 2

\* Most loadCsvNames calls awaiting at once.
MaxInflight == 2

\* setTimeout(..., 300)
CloseDelay == 300

\* Time passes in steps of half the close delay.
TimeStep == CloseDelay \div 2

Urls == {1, 2}

\* event.key values tried.
Keys == {" ", "Spacebar", "Escape", "Enter"}

Min(a, b) == IF a <= b THEN a ELSE b

\* The ghost tick counter stops counting here.
TickCap == 2 * MaxHeight + 1

\* ---- animation frames ----
\* Handles are only ever compared for equality, so a handle that is neither
\* pending nor held in the ref can be handed out again.
NewHandle(r) ==
    CHOOSE h \in 1..(Cardinality(r.queue) + 2) : h \notin r.queue \cup {r.ref}

Raf == [queue |-> rafQueue, ref |-> animationFrameIdRef]

\* animationFrameIdRef.current = requestAnimationFrame(scrollStep)
RequestFrame(r) ==
    LET h == NewHandle(r) IN [queue |-> r.queue \cup {h}, ref |-> h]

\* An effect body that schedules a frame whatever isPlaying is.
WallEffectAlways(r, playing) == RequestFrame(r)

\* WallOfNames' effect body: if (isPlaying) request a frame.
WallEffect(r, playing) == IF playing THEN RequestFrame(r) ELSE r

\* A cleanup that forgets cancelAnimationFrame.
WallCleanupNoCancel(r) == r

\* WallOfNames' effect cleanup: if (ref.current) cancelAnimationFrame(ref.current)
WallCleanup(r) ==
    IF r.ref # 0 THEN [queue |-> r.queue \ {r.ref}, ref |-> r.ref] ELSE r

\* The effect re-run when isPlaying changed: cleanup, then the body.
WallRerun(r, playing) == WallEffect(WallCleanup(r), playing)

\* A mount whose body runs twice with no cleanup in between.
WallMountEffectTwice(r, playing) == WallEffect(WallEffect(r, playing), playing)

\* The effect on mount; StrictMode runs body, cleanup, body.
WallMountEffect(r, playing) ==
    LET first == WallEffect(r, playing)
    IN  IF strict THEN WallEffect(WallCleanup(first), playing) ELSE first

\* ---- the scroll container ----
\* scrollTop is kept in quarter pixels: 0.25 px is 1, scrollHeight / 2 is
\* 2 * scrollHeight.  The DOM keeps scrollTop within
\* [0, scrollHeight - clientHeight].
MaxScrollTop(h, v) == 4 * (h - v)

ClampTop(top, h, v) == Min(top, MaxScrollTop(h, v))

\* scrollTop >= scrollHeight / 2
AtHalf(top, h) == top >= 2 * h

\* scrollStep's update of the cursor.
ScrollStepTop(top, h, v) ==
    IF AtHalf(top, h) THEN 0 ELSE ClampTop(top + 1, h, v)

Layouts == {<<h, v>> \in (1..MaxHeight) \X (1..MaxHeight) : v <= h}

\* ---- fragments of steps ----
SetRaf(r) ==
    /\ rafQueue' = r.queue
    /\ animationFrameIdRef' = r.ref

\* WallOfNames mounts with isPlaying = first; the host's own mount effect
\* may then set isPlaying to final.
WallMount(first, final) ==
    /\ wallMounted' = TRUE
    /\ \E l \in Layouts : scrollHeight' = l[1] /\ clientHeight' = l[2]
    /\ scrollTop' = 0
    /\ sinceReset' = 0
    /\ LET m == WallMountEffect([queue |-> rafQueue, ref |-> 0], first)
       IN  SetRaf(IF final # first THEN WallRerun(m, final) ELSE m)

WallUnmount ==
    /\ wallMounted' = FALSE
    /\ SetRaf([queue |-> WallCleanup(Raf).queue, ref |-> 0])
    /\ scrollTop' = 0
    /\ scrollHeight' = 0
    /\ clientHeight' = 0
    /\ sinceReset' = 0

\* setIsPlaying(p) and the re-render: WallOfNames' effect depends on [isPlaying].
SetIsPlaying(p) ==
    /\ isPlaying' = p
    /\ IF wallMounted /\ p # isPlaying
       THEN /\ SetRaf(WallRerun(Raf, p))
            /\ UNCHANGED <<wallMounted, scrollTop, scrollHeight, clientHeight, sinceReset>>
       ELSE UNCHANGED wallVars

\* A toggle that does nothing when already paused.
TogglePlayStuck == SetIsPlaying(FALSE)

\* togglePlay: setIsPlaying(prev => !prev)
TogglePlay == SetIsPlaying(~isPlaying)

\* setIsPlaying(!mediaQuery.matches)
FromSignal == ~reducedMotion

\* A reset that always resumes playback.
DerivedPlayingIgnoringSignal(p, vis) == IF vis THEN TRUE ELSE p

\* What SignersOverlay's effect leaves isPlaying at: re-derived when visible.
DerivedPlaying(p, vis) == IF vis THEN FromSignal ELSE p

\* A cleanup that forgets removeEventListener.
ListenersAfterNoRemove(n, was, vis) == n + (IF vis /\ ~was THEN 1 ELSE 0)

\* The keydown listeners on window after the overlay's effect has re-run:
\* the cleanup removes the one added with isVisible = was, the body adds
\* one when isVisible = vis is true.
ListenersAfter(n, was, vis) ==
    (n - (IF was THEN 1 ELSE 0)) + (IF vis THEN 1 ELSE 0)

\* An effect whose cleanup (overflow = '') is the last word on the page lock.
OverlayRerunCleanupLast(was, vis) ==
    /\ keyListeners' = (keyListeners - (IF was THEN 1 ELSE 0)) + (IF vis THEN 1 ELSE 0)
    /\ bodyOverflow' = ""

\* SignersOverlay's effect re-run: the cleanup of the run made with isVisible
\* = was (removeEventListener, overflow = ''), then the body with isVisible
\* = vis (overflow = 'hidden' and addEventListener, or overflow = '').
OverlayRerun(was, vis) ==
    /\ keyListeners' = ListenersAfter(keyListeners, was, vis)
    /\ bodyOverflow' = IF vis THEN "hidden" ELSE ""

NewTimer == [elapsed |-> 0, live |-> TRUE]

\* closeAndReset: onClose() (the parent hides the overlay, the effect re-runs
\* with isVisible = false), then setTimeout(reset, 300).
CloseAndReset ==
    /\ isVisible' = FALSE
    /\ OverlayRerun(isVisible, FALSE)
    /\ timers' = Append(timers, NewTimer)
    /\ UNCHANGED <<isPlaying, onClose>>
    /\ UNCHANGED wallVars

\* Function identities are only compared: two of them are enough.
OtherCallback(f) == IF f = 1 THEN 2 ELSE 1

IsSpace(k) == k = " " \/ k = "Spacebar"

--------------------------------------------------------------------------
(* Steps.                                                                  *)

Init ==
    /\ CsvIdle
    /\ EntryIdle
    /\ variant \in {"inline", "overlay"}
    /\ strict \in BOOLEAN
    /\ reducedMotion \in BOOLEAN
    /\ mounted = FALSE
    /\ isPlaying = TRUE
    /\ isVisible = FALSE
    /\ onClose = 1
    /\ keyListeners = 0
    /\ bodyOverflow = ""
    /\ timers = <<>>
    /\ defaultPrevented = FALSE
    /\ isLoading = TRUE
    /\ names = "initial"
    /\ csvUrl = 1
    /\ inflight = <<>>
    /\ wallMounted = FALSE
    /\ animationFrameIdRef = 0
    /\ rafQueue = {}
    /\ scrollTop = 0
    /\ scrollHeight = 0
    /\ clientHeight = 0
    /\ sinceReset = 0

\* index.tsx renders <App csvUrl=...>; App's two mount effects run: the load
\* starts (twice under StrictMode), the key listener is added and isPlaying
\* is set from the reduced-motion signal.  The first render shows "Loading".
RenderApp(u) ==
    /\ mounted' = TRUE
    /\ csvUrl' = u
    /\ inflight' = IF strict THEN <<u, u>> ELSE <<u>>
    /\ isLoading' = TRUE
    /\ names' = "initial"
    /\ keyListeners' = 1
    /\ isPlaying' = FromSignal
    /\ UNCHANGED wallVars
    /\ UNCHANGED <<buildVars, reducedMotion, overlayVars, defaultPrevented>>

\* A host page mounts <App csvUrl=...> (again).
MountApp ==
    /\ variant = "inline"
    /\ ~mounted
    /\ \E u \in Urls : RenderApp(u)
    /\ UNCHANGED csvVars
    /\ UNCHANGED entryVars

\* A loadCsvNames call resumes after its await: setNames, setIsLoading(false).
ResolveLoad ==
    /\ mounted
    /\ \E k \in 1..Len(inflight), rows \in {"names", "empty"} :
          /\ names' = [url |-> inflight[k], rows |-> rows]
          /\ inflight' = SubSeq(inflight, 1, k - 1) \o SubSeq(inflight, k + 1, Len(inflight))
    /\ isLoading' = FALSE
    /\ IF wallMounted THEN UNCHANGED wallVars ELSE WallMount(isPlaying, isPlaying)
    /\ UNCHANGED <<buildVars, reducedMotion, mounted, isPlaying, overlayVars, keyListeners,
                   defaultPrevented, csvUrl>>
    /\ UNCHANGED csvVars
    /\ UNCHANGED entryVars

\* App is re-rendered with another csvUrl: the load effect runs again,
\* setIsLoading(true) puts "Loading" in place of the wall.
ChangeUrl ==
    /\ variant = "inline"
    /\ mounted
    /\ Len(inflight) < MaxInflight
    /\ \E u \in Urls \ {csvUrl} :
          /\ csvUrl' = u
          /\ inflight' = Append(inflight, u)
    /\ isLoading' = TRUE
    /\ IF wallMounted THEN WallUnmount ELSE UNCHANGED wallVars
    /\ UNCHANGED <<buildVars, reducedMotion, mounted, isPlaying, overlayVars, keyListeners,
                   defaultPrevented, names>>
    /\ UNCHANGED csvVars
    /\ UNCHANGED entryVars

\* SignersOverlay mounts with isVisible = vis: isPlaying starts true,
\* WallOfNames mounts, then the overlay's effect runs.
MountOverlay ==
    /\ variant = "overlay"
    /\ ~mounted
    /\ mounted' = TRUE
    /\ \E vis \in BOOLEAN :
          /\ isVisible' = vis
          /\ onClose' = 1
          /\ keyListeners' = IF vis THEN 1 ELSE 0
          /\ bodyOverflow' = IF vis THEN "hidden" ELSE ""
          /\ isPlaying' = DerivedPlaying(TRUE, vis)
          /\ WallMount(TRUE, DerivedPlaying(TRUE, vis))
    /\ UNCHANGED <<buildVars, reducedMotion, timers, defaultPrevented, loadVars>>
    /\ UNCHANGED csvVars
    /\ UNCHANGED entryVars

\* The parent re-renders SignersOverlay with the other isVisible and the
\* same onClose.
ParentSetVisible ==
    /\ variant = "overlay"
    /\ mounted
    /\ isVisible' = ~isVisible
    /\ OverlayRerun(isVisible, ~isVisible)
    /\ SetIsPlaying(DerivedPlaying(isPlaying, ~isVisible))
    /\ UNCHANGED <<buildVars, reducedMotion, mounted, onClose, timers, defaultPrevented,
                   loadVars>>
    /\ UNCHANGED csvVars
    /\ UNCHANGED entryVars

\* The parent re-renders SignersOverlay with a new onClose function:
\* closeAndReset is a new function, so the effect re-runs.
ParentRerender ==
    /\ variant = "overlay"
    /\ mounted
    /\ onClose' = OtherCallback(onClose)
    /\ OverlayRerun(isVisible, isVisible)
    /\ SetIsPlaying(DerivedPlaying(isPlaying, isVisible))
    /\ UNCHANGED <<buildVars, reducedMotion, mounted, isVisible, timers, defaultPrevented,
                   loadVars>>
    /\ UNCHANGED csvVars
    /\ UNCHANGED entryVars

\* The host component is unmounted: effect cleanups run, state is dropped,
\* awaiting loads and pending timeouts belong to a dead instance.
Unmount ==
    /\ mounted
    /\ mounted' = FALSE
    /\ keyListeners' = 0
    /\ bodyOverflow' = IF variant = "overlay" THEN "" ELSE bodyOverflow
    /\ isVisible' = FALSE
    /\ onClose' = 1
    /\ isPlaying' = TRUE
    /\ isLoading' = TRUE
    /\ names' = "initial"
    /\ inflight' = <<>>
    /\ timers' = [k \in 1..Len(timers) |-> [timers[k] EXCEPT !.live = FALSE]]
    /\ IF wallMounted THEN WallUnmount ELSE UNCHANGED wallVars
    /\ UNCHANGED <<buildVars, reducedMotion, defaultPrevented, csvUrl>>
    /\ UNCHANGED csvVars
    /\ UNCHANGED entryVars

\* handleKeyDown for one keydown event with event.key = k reaching window.
\* App: space toggles.  SignersOverlay: Escape closes, space toggles.
KeyDownOf(k) ==
    /\ \/ /\ keyListeners = 0
          /\ defaultPrevented' = FALSE
          /\ UNCHANGED <<isPlaying, wallVars, overlayVars, keyListeners>>
       \/ /\ keyListeners > 0
          /\ IsSpace(k)
          /\ defaultPrevented' = TRUE
          /\ TogglePlay
          /\ UNCHANGED <<overlayVars, keyListeners>>
       \/ /\ keyListeners > 0
          /\ k = "Escape"
          /\ variant = "overlay"
          /\ Len(timers) < MaxTimers
          /\ defaultPrevented' = FALSE
          /\ CloseAndReset
       \/ /\ keyListeners > 0
          /\ ~IsSpace(k)
          /\ ~(k = "Escape" /\ variant = "overlay")
          /\ defaultPrevented' = FALSE
          /\ UNCHANGED <<isPlaying, wallVars, overlayVars, keyListeners>>
    /\ UNCHANGED <<buildVars, reducedMotion, mounted, loadVars>>
    /\ UNCHANGED csvVars
    /\ UNCHANGED entryVars

KeyDown == \E k \in Keys : KeyDownOf(k)

\* A click on the names container or on the play/pause button.
Click ==
    /\ wallMounted
    /\ variant = "overlay" => isVisible
    /\ TogglePlay
    /\ UNCHANGED <<buildVars, reducedMotion, mounted, overlayVars, keyListeners,
                   defaultPrevented, loadVars>>
    /\ UNCHANGED csvVars
    /\ UNCHANGED entryVars

\* A click on the close button or on "Add Your Name".
ClickClose ==
    /\ variant = "overlay"
    /\ mounted
    /\ isVisible
    /\ Len(timers) < MaxTimers
    /\ CloseAndReset
    /\ UNCHANGED <<buildVars, reducedMotion, mounted, defaultPrevented, loadVars>>
    /\ UNCHANGED csvVars
    /\ UNCHANGED entryVars

\* Time passes.
Elapse ==
    /\ \E k \in 1..Len(timers) : timers[k].elapsed < CloseDelay
    /\ timers' = [k \in 1..Len(timers) |->
                     [timers[k] EXCEPT !.elapsed = Min(@ + TimeStep, CloseDelay)]]
    /\ UNCHANGED <<buildVars, reducedMotion, mounted, isPlaying, isVisible, onClose,
                   keyListeners, bodyOverflow, defaultPrevented, loadVars, wallVars>>
    /\ UNCHANGED csvVars
    /\ UNCHANGED entryVars

\* The oldest timeout is due: setIsPlaying(!mediaQuery.matches), which React
\* ignores when the component is gone.
TimerFire ==
    /\ timers # <<>>
    /\ Head(timers).elapsed >= CloseDelay
    /\ timers' = Tail(timers)
    /\ IF Head(timers).live
       THEN SetIsPlaying(FromSignal)
       ELSE UNCHANGED <<isPlaying, wallVars>>
    /\ UNCHANGED <<buildVars, reducedMotion, mounted, isVisible, onClose, keyListeners,
                   bodyOverflow, defaultPrevented, loadVars>>
    /\ UNCHANGED csvVars
    /\ UNCHANGED entryVars

\* The user switches the operating system's reduced-motion preference.
ToggleReducedMotion ==
    /\ reducedMotion' = ~reducedMotion
    /\ UNCHANGED <<buildVars, mounted, isPlaying, overlayVars, keyListeners,
                   defaultPrevented, loadVars, wallVars>>
    /\ UNCHANGED csvVars
    /\ UNCHANGED entryVars

\* The layout changes (viewport resize, other names): the DOM clamps scrollTop.
Resize ==
    /\ wallMounted
    /\ \E l \in Layouts \ {<<scrollHeight, clientHeight>>} :
          /\ scrollHeight' = l[1]
          /\ clientHeight' = l[2]
          /\ scrollTop' = ClampTop(scrollTop, l[1], l[2])
    /\ sinceReset' = 0
    /\ UNCHANGED <<wallMounted, animationFrameIdRef, rafQueue>>
    /\ UNCHANGED <<buildVars, reducedMotion, mounted, isPlaying, overlayVars, keyListeners,
                   defaultPrevented, loadVars>>
    /\ UNCHANGED csvVars
    /\ UNCHANGED entryVars

\* The browser runs a pending scrollStep callback: one tick.
ScrollStep ==
    /\ \E h \in rafQueue :
          SetRaf(RequestFrame([queue |-> rafQueue \ {h}, ref |-> animationFrameIdRef]))
    /\ IF wallMounted
       THEN /\ scrollTop' = ScrollStepTop(scrollTop, scrollHeight, clientHeight)
            /\ sinceReset' = IF AtHalf(scrollTop, scrollHeight)
                             THEN 0
                             ELSE Min(sinceReset + 1, TickCap)
       ELSE UNCHANGED <<scrollTop, sinceReset>>
    /\ UNCHANGED <<wallMounted, scrollHeight, clientHeight>>
    /\ UNCHANGED <<buildVars, reducedMotion, mounted, isPlaying, overlayVars, keyListeners,
                   defaultPrevented, loadVars>>
    /\ UNCHANGED csvVars
    /\ UNCHANGED entryVars

Next ==
    \/ MountApp
    \/ ResolveLoad
    \/ ChangeUrl
    \/ MountOverlay
    \/ ParentSetVisible
    \/ ParentRerender
    \/ Unmount
    \/ KeyDown
    \/ Click
    \/ ClickClose
    \/ Elapse
    \/ TimerFire
    \/ ToggleReducedMotion
    \/ Resize
    \/ ScrollStep

Spec == Init /\ [][Next]_vars

\* The scroll loop on its own: a widget is mounted, the user may toggle
\* playback, and the browser runs every animation frame callback that stays
\* requested.
NextScroll ==
    \/ MountApp
    \/ ResolveLoad
    \/ MountOverlay
    \/ Click
    \/ ScrollStep

SpecScroll == Init /\ [][NextScroll]_vars /\ WF_vars(ScrollStep)

\* The widget under a reduced-motion preference that stays set, with a user
\* who never toggles playback: no click on the names or the play button, no
\* spacebar.  Everything else may happen.
InitReducedMotion == Init /\ reducedMotion

KeyDownNotSpace == \E k \in {k \in Keys : ~IsSpace(k)} : KeyDownOf(k)

NextReducedMotion ==
    \/ MountApp
    \/ ResolveLoad
    \/ ChangeUrl
    \/ MountOverlay
    \/ ParentSetVisible
    \/ ParentRerender
    \/ Unmount
    \/ KeyDownNotSpace
    \/ ClickClose
    \/ Elapse
    \/ TimerFire
    \/ Resize
    \/ ScrollStep

SpecReducedMotion == InitReducedMotion /\ [][NextReducedMotion]_vars

\* ---- App's load, with the call of fetchCsvWallOfNames followed ----
\* Bodies the server may send: nothing, a header only, one row, two rows.
LoadTexts ==
    {<<>>, <<"a">>, <<"a", "\n", "b">>, <<"a", "\n", "b", "\n", "a">>}

LoadAnswers ==
    {[kind |-> k, text |-> <<>>] : k \in {"networkError", "notOk", "bodyError"}}
    \cup {[kind |-> "ok", text |-> t] : t \in LoadTexts}

\* The calls App has made run independently of each other; they are
\* followed one at a time, oldest first.
\* const fetchedNames = await fetchCsvWallOfNames(csvUrl): the call starts.
CallFetch ==
    /\ pc = "idle"
    /\ mounted
    /\ inflight # <<>>
    /\ pc' = "fetch"
    /\ server' \in LoadAnswers
    /\ csvString' = <<>>
    /\ preformattedNames' = <<>>
    /\ newArr' = <<>>
    /\ i' = 0
    /\ settled' = "pending"
    /\ result' = <<>>
    /\ logged' = 0
    /\ UNCHANGED uiVars
    /\ UNCHANGED entryVars

\* A load that shows the names but never leaves "Loading".
FinishLoadKeepsLoading(u, fetchedNames) ==
    /\ names' = [url |-> u, rows |-> IF fetchedNames = <<>> THEN "empty" ELSE "names"]
    /\ isLoading' = isLoading
    /\ UNCHANGED wallVars

\* setNames(fetchedNames); setIsLoading(false); the render shows the wall.
FinishLoad(u, fetchedNames) ==
    /\ names' = [url |-> u, rows |-> IF fetchedNames = <<>> THEN "empty" ELSE "names"]
    /\ isLoading' = FALSE
    /\ IF wallMounted THEN UNCHANGED wallVars ELSE WallMount(isPlaying, isPlaying)

\* loadCsvNames resumes after its await with the promise's value; a rejected
\* promise would throw out of loadCsvNames before setNames.
LoadSettled ==
    /\ pc = "done"
    /\ mounted
    /\ inflight # <<>>
    /\ pc' = "idle"
    /\ inflight' = Tail(inflight)
    /\ IF settled = "fulfilled"
       THEN FinishLoad(Head(inflight), result)
       ELSE UNCHANGED <<names, isLoading, wallVars>>
    /\ UNCHANGED <<server, csvString, preformattedNames, newArr, i, settled, result, logged>>
    /\ UNCHANGED <<buildVars, reducedMotion, mounted, isPlaying, overlayVars, keyListeners,
                   defaultPrevented, csvUrl>>
    /\ UNCHANGED entryVars

InitLoad == Init /\ variant = "inline"

NextLoad ==
    \/ MountApp
    \/ ChangeUrl
    \/ CallFetch
    \/ AwaitFetch
    \/ AwaitText
    \/ ShuffleStep
    \/ Return
    \/ LoadSettled

\* Every call that has been made starts, every fetch and body read settles,
\* and the continuation of an await runs.
SpecLoad ==
    /\ InitLoad
    /\ [][NextLoad]_vars
    /\ WF_vars(CallFetch)
    /\ WF_vars(AwaitFetch)
    /\ WF_vars(AwaitText)
    /\ WF_vars(ShuffleStep)
    /\ WF_vars(Return)
    /\ WF_vars(LoadSettled)

\* ---- the entry point ----
Selectors == {"#root", "#wall"}

\* config.targetSelector || '#root' ("" stands for an absent or empty value)
TargetSelector(cfg) ==
    IF cfg.targetSelector = "" THEN "#root" ELSE cfg.targetSelector

\* A lookup that settles for any element of the page.
QuerySelectorAny(sel, d) == d # {}

\* document.querySelector(sel) is not null
QuerySelector(sel, d) == sel \in d

\* The page loads the bundle: no config or one, any elements present.
InitEntry ==
    /\ CsvIdle
    /\ config \in [targetSelector : {""} \cup Selectors, csvUrl : Urls]
    /\ dom \in SUBSET Selectors
    /\ entryDone = FALSE
    /\ renders = 0
    /\ variant = "inline"
    /\ strict \in BOOLEAN
    /\ reducedMotion \in BOOLEAN
    /\ mounted = FALSE
    /\ isPlaying = TRUE
    /\ isVisible = FALSE
    /\ onClose = 1
    /\ keyListeners = 0
    /\ bodyOverflow = ""
    /\ timers = <<>>
    /\ defaultPrevented = FALSE
    /\ isLoading = TRUE
    /\ names = "initial"
    /\ csvUrl = 1
    /\ inflight = <<>>
    /\ wallMounted = FALSE
    /\ animationFrameIdRef = 0
    /\ rafQueue = {}
    /\ scrollTop = 0
    /\ scrollHeight = 0
    /\ clientHeight = 0
    /\ sinceReset = 0

\* index.tsx, run once when the script loads: look the target up; render
\* <React.StrictMode><App csvUrl={config.csvUrl} /> into it, or console.error.
EntryPoint ==
    /\ ~entryDone
    /\ entryDone' = TRUE
    /\ IF QuerySelector(TargetSelector(config), dom)
       THEN /\ RenderApp(config.csvUrl)
            /\ renders' = renders + 1
            /\ UNCHANGED logged
       ELSE /\ logged' = logged + 1
            /\ UNCHANGED uiVars
            /\ UNCHANGED renders
    /\ UNCHANGED <<config, dom>>
    /\ UNCHANGED <<pc, server, csvString, preformattedNames, newArr, i, settled, result>>

\* The page gains an element, before or after the script has run.
PageChange ==
    /\ \E sel \in Selectors \ dom : dom' = dom \cup {sel}
    /\ UNCHANGED <<config, entryDone, renders>>
    /\ UNCHANGED uiVars
    /\ UNCHANGED csvVars

\* The page from the load of the script on; nothing unmounts the root.
NextEntry ==
    \/ EntryPoint
    \/ PageChange
    \/ ResolveLoad
    \/ KeyDown
    \/ Click
    \/ ToggleReducedMotion
    \/ Resize
    \/ ScrollStep

SpecEntry == InitEntry /\ [][NextEntry]_vars

\* The same widget whose layout never changes after WallOfNames has mounted.
NextFixedExtent ==
    \/ MountApp
    \/ ResolveLoad
    \/ ChangeUrl
    \/ MountOverlay
    \/ ParentSetVisible
    \/ ParentRerender
    \/ Unmount
    \/ KeyDown
    \/ Click
    \/ ClickClose
    \/ Elapse
    \/ TimerFire
    \/ ToggleReducedMotion
    \/ ScrollStep

SpecFixedExtent == Init /\ [][NextFixedExtent]_vars

--------------------------------------------------------------------------
(* Properties of the list preparation.                                     *)

\* The lines of the text as fetched, before any trimming.
RawLines(text) == Split(text)

\* Number of non-blank lines after the first line of the text.
RowsAfterFirstLine(text) ==
    Len(SelectSeq(Tail(RawLines(text)), LAMBDA l : ~IsBlank(l)))

\* Number of non-blank lines after the first non-blank line of the text.
RowsAfterHeader(text) ==
    LET ls == RawLines(text)
        nonBlank == {k \in 1..Len(ls) : ~IsBlank(ls[k])}
    IN  IF nonBlank = {} THEN 0 ELSE Cardinality(nonBlank) - 1

FirstHalf(s) == SubSeq(s, 1, Len(s) \div 2)
SecondHalf(s) == SubSeq(s, (Len(s) \div 2) + 1, Len(s))

Loaded == pc = "done" /\ server.kind = "ok"

\* The multiset of a list's elements.
BagOfSeq(s) ==
    [e \in {s[k] : k \in 1..Len(s)} |-> Cardinality({k \in 1..Len(s) : s[k] = e})]

\* C1 as stated, with "the header line" read as the first line of the text:
\* a successful load of a text with N non-blank lines after its first line
\* returns 2 * 20 * N entries, the first half equal to the second.
C1_AsStated ==
    Loaded =>
        /\ settled = "fulfilled"
        /\ Len(result) = 2 * RepeatCount * RowsAfterFirstLine(server.text)
        /\ FirstHalf(result) = SecondHalf(result)

\* C1 amended: the header is the first non-blank line (parseCsv trims the
\* whole text before it drops the first line).  A successful load of a text
\* with N non-blank lines after its first non-blank line returns
\* 2 * 20 * N entries, the first half element-wise equal to the second.
C1_LengthAndHalves ==
    Loaded =>
        /\ settled = "fulfilled"
        /\ Len(result) = 2 * RepeatCount * RowsAfterHeader(server.text)
        /\ FirstHalf(result) = SecondHalf(result)

C1_Witness ==
    /\ Loaded
    /\ RowsAfterHeader(server.text) = 2
    /\ Len(result) = 4 * RepeatCount
    /\ result[1] # result[2]

\* C6: fetchCsvWallOfNames never rejects; when the response is not ok, or
\* the fetch or the body read throws, it logs once and resolves to [].
C6_NeverRejects ==
    /\ settled # "rejected"
    /\ (pc = "done" /\ server.kind # "ok") =>
           /\ settled = "fulfilled"
           /\ result = <<>>
           /\ logged = 1

C6_Witness ==
    /\ pc = "done"
    /\ server.kind = "bodyError"
    /\ settled = "fulfilled"
    /\ logged = 1

FromDataLine(e, text) ==
    \E k \in 2..Len(RawLines(text)) :
        /\ ~IsBlank(RawLines(text)[k])
        /\ e \in {RawLines(text)[k], TrimEnd(RawLines(text)[k])}

\* C8: the first (header) line is not carried into the output and no blank
\* line is: every entry is a non-blank line that comes after the first
\* line, and there are no more entries than such lines allow.
C8_NoHeaderNoBlank ==
    Loaded =>
        /\ \A k \in 1..Len(result) :
               /\ ~IsBlank(result[k])
               /\ FromDataLine(result[k], server.text)
        /\ Len(result) <= 2 * RepeatCount * RowsAfterFirstLine(server.text)

C8_Witness ==
    /\ Loaded
    /\ Len(RawLines(server.text)) >= 4
    /\ IsBlank(RawLines(server.text)[1])
    /\ IsBlank(RawLines(server.text)[Len(RawLines(server.text))])
    /\ result # <<>>

--------------------------------------------------------------------------
(* Properties of the scroll engine and of the playback state machine.      *)

LayoutKept == scrollHeight' = scrollHeight /\ clientHeight' = clientHeight

\* With a fixed layout the cursor is never past half the scrollable extent.
CursorNeverPastHalf == wallMounted => scrollTop <= 2 * scrollHeight

\* C2 as stated: with a fixed scrollable extent H the cursor never exceeds
\* H / 2, and ticks worth H / 2 of increment never run without the cursor
\* having been reset to 0.
C2_AsStated ==
    wallMounted =>
        /\ scrollTop <= 2 * scrollHeight
        /\ sinceReset <= 2 * scrollHeight

C4_ToggleOnce ==
    [][/\ Click => isPlaying' = ~isPlaying
       /\ \A k \in {" ", "Spacebar"} :
              (KeyDownOf(k) /\ keyListeners > 0)
                  => (isPlaying' = ~isPlaying /\ defaultPrevented')]_vars

C4_Witness ==
    /\ mounted
    /\ defaultPrevented
    /\ keyListeners = 1
    /\ isPlaying # FromSignal
    /\ timers = <<>>

\* C5: when playback is paused or WallOfNames is torn down, no animation
\* frame stays pending.
C5_NoPendingTick ==
    (~wallMounted \/ ~isPlaying) => rafQueue = {}

C5_Witness ==
    /\ wallMounted
    /\ ~isPlaying
    /\ animationFrameIdRef # 0
    /\ rafQueue = {}

\* C9: the step that mounts App, and every step that makes the overlay
\* visible, leaves isPlaying at the negation of the reduced-motion signal,
\* whatever it was before.
C9_DerivedOnOpen ==
    [][((variant = "inline" /\ ~mounted /\ mounted')
          \/ (variant = "overlay" /\ ~isVisible /\ isVisible'))
        => isPlaying' = ~reducedMotion']_vars

C9_Witness ==
    /\ variant = "overlay"
    /\ isVisible
    /\ reducedMotion
    /\ ~isPlaying
    /\ timers # <<>>

\* C10 as stated: an Escape keydown on the visible overlay hides it at once,
\* leaves isPlaying alone and starts the timeout; and while the overlay
\* stays hidden isPlaying is re-derived only by a timeout, and only once
\* 300 ms have passed since the overlay was last closed by closeAndReset.
C10_AsStated ==
    /\ [][(KeyDownOf("Escape") /\ variant = "overlay" /\ isVisible /\ keyListeners > 0)
            => /\ ~isVisible'
               /\ isPlaying' = isPlaying
               /\ timers' = Append(timers, NewTimer)]_vars
    /\ [][(variant = "overlay" /\ mounted /\ mounted' /\ ~isVisible /\ ~isVisible'
             /\ isPlaying' # isPlaying)
            => /\ timers # <<>>
               /\ timers' = Tail(timers)
               /\ isPlaying' = ~reducedMotion
               /\ timers[Len(timers)].elapsed >= CloseDelay]_vars

\* C11: the page scroll lock follows the overlay.  body.style.overflow is
\* 'hidden' in every state where SignersOverlay is mounted and visible, and
\* '' in every other state: as soon as the overlay is closed or unmounted
\* the page scrolls again, whatever opens, closes, re-renders and unmounts
\* came before.
C11_ScrollLock ==
    bodyOverflow = IF variant = "overlay" /\ mounted /\ isVisible THEN "hidden" ELSE ""

\* The overlay is open again, locked, after it has been closed once.
C11_Witness ==
    /\ variant = "overlay"
    /\ mounted
    /\ isVisible
    /\ bodyOverflow = "hidden"
    /\ timers # <<>>

\* C12 as stated: while the overlay stays mounted and visible, isPlaying is
\* changed only by a click, a spacebar keydown or the delayed reset of an
\* earlier close; no other event (a parent re-render with a new onClose,
\* a change of the reduced-motion preference) changes it.
C12_AsStated ==
    [][(variant = "overlay" /\ mounted /\ mounted' /\ isVisible /\ isVisible'
          /\ isPlaying' # isPlaying)
        => (Click \/ KeyDownOf(" ") \/ KeyDownOf("Spacebar") \/ TimerFire)]_vars

\* What holds of the code: such a change is one of those three or a re-run
\* of the overlay's effect, which re-derives isPlaying from the signal.
OnlyKnownWriters ==
    [][(variant = "overlay" /\ mounted /\ mounted' /\ isVisible /\ isVisible'
          /\ isPlaying' # isPlaying)
        => (Click \/ KeyDownOf(" ") \/ KeyDownOf("Spacebar") \/ TimerFire
              \/ ParentRerender)]_vars

\* The fetched text has a header at most: no non-blank line after its first
\* non-blank line.
EmptySource(text) == RowsAfterHeader(text) = 0

\* C13 as stated: a successful fetch of an empty source resolves to the
\* empty sequence, without rejecting, and reports the failure with
\* console.error.
C13_AsStated ==
    (Loaded /\ EmptySource(server.text)) =>
        /\ settled = "fulfilled"
        /\ result = <<>>
        /\ logged >= 1

\* What holds of the code: the empty sequence, silently.
EmptySourceIsSilent ==
    (Loaded /\ EmptySource(server.text)) =>
        /\ settled = "fulfilled"
        /\ result = <<>>
        /\ logged = 0

\* C14 as stated: every entry of the prepared sequence is trimmed non-empty
\* text, with no leading or trailing whitespace of its CSV line.
C14_AsStated ==
    Loaded => \A k \in 1..Len(result) :
                  /\ ~IsBlank(result[k])
                  /\ Trim(result[k]) = result[k]

\* Number of entries of s equal to e.
Count(e, s) == Cardinality({k \in 1..Len(s) : s[k] = e})

LoadedExample == Loaded /\ server.text = ExampleCsv

\* C15 as stated: for 'name\nAlice\nBob\n\n' the base list is Alice, Bob, the
\* prepared sequence has 80 entries and each name appears 40 times in each
\* half.
C15_AsStated ==
    LoadedExample =>
        /\ preformattedNames = <<Alice, Bob>>
        /\ Len(result) = 4 * RepeatCount
        /\ \A e \in {Alice, Bob} :
               /\ Count(e, FirstHalf(result)) = 2 * RepeatCount
               /\ Count(e, SecondHalf(result)) = 2 * RepeatCount

\* C15 amended: for 'name\nAlice\nBob\n\n' the base list is Alice, Bob, the
\* prepared sequence has 80 entries, and each name appears 20 times in each
\* half of 40 entries, 40 times in the whole sequence.
C15_Example ==
    LoadedExample =>
        /\ preformattedNames = <<Alice, Bob>>
        /\ Len(result) = 4 * RepeatCount
        /\ Len(FirstHalf(result)) = 2 * RepeatCount
        /\ \A e \in {Alice, Bob} :
               /\ Count(e, FirstHalf(result)) = RepeatCount
               /\ Count(e, SecondHalf(result)) = RepeatCount
               /\ Count(e, result) = 2 * RepeatCount

\* The example has been loaded, and shuffled to Bob, Alice.
C15_Witness ==
    /\ LoadedExample
    /\ Len(result) = 4 * RepeatCount
    /\ result[1] = Bob
    /\ result[2] = Alice

\* C16: scroll ticks never overlap.  At most one scrollStep callback is
\* pending at any time, whatever mounts, unmounts, toggles, effect re-runs
\* (StrictMode's double invocation included) and ticks came before; and a
\* tick consumes the pending callback, updates the cursor and leaves exactly
\* one successor pending, a request made after the update.
C16_NoOverlap ==
    /\ [](Cardinality(rafQueue) <= 1)
    /\ [][ScrollStep => /\ Cardinality(rafQueue) = 1
                        /\ Cardinality(rafQueue') = 1
                        /\ rafQueue' \cap rafQueue = {}
                        /\ rafQueue' = {animationFrameIdRef'}
                        /\ scrollTop' = ScrollStepTop(scrollTop, scrollHeight, clientHeight)]_vars

\* A development build, scrolling again after a pause.
C16_Witness ==
    /\ strict
    /\ wallMounted
    /\ isPlaying
    /\ scrollTop > 0
    /\ Cardinality(rafQueue) = 1
    /\ defaultPrevented

\* C17: the entry point.  When it runs, if no element matches the configured
\* targetSelector ('#root' when none is configured) it logs one error and
\* renders nothing; if one matches, App is rendered once with the
\* configured csvUrl and nothing is logged.  After that nothing is rendered
\* or logged again, also when the missing element appears later.
C17_EntryPoint ==
    /\ [][(~entryDone /\ entryDone') =>
             IF TargetSelector(config) \in dom
             THEN /\ mounted'
                  /\ renders' = 1
                  /\ csvUrl' = config.csvUrl
                  /\ logged' = logged
             ELSE /\ ~mounted'
                  /\ renders' = 0
                  /\ logged' = logged + 1]_vars
    /\ [][entryDone => /\ entryDone'
                       /\ renders' = renders
                       /\ logged' = logged
                       /\ mounted' = mounted]_vars

\* The script found no target and gave up; the element is there now.
C17_Witness ==
    /\ entryDone
    /\ renders = 0
    /\ logged = 1
    /\ ~mounted
    /\ config.targetSelector = "#wall"
    /\ "#wall" \in dom

\* C18 as stated: every tick, with H the scrollHeight read at that tick,
\* sets the cursor to 0 when it is at or past H / 2 and otherwise increases
\* it by exactly 0.25.
C18_AsStated ==
    [][(ScrollStep /\ wallMounted)
        => scrollTop' = IF scrollTop >= 2 * scrollHeight THEN 0 ELSE scrollTop + 1]_vars

\* What holds of the code: the wrap decision uses the scrollHeight of the
\* tick's own state, and the increment is 0.25 wherever the DOM has room.
TickReadsCurrentExtent ==
    [][(ScrollStep /\ wallMounted)
        => /\ (scrollTop >= 2 * scrollHeight) => scrollTop' = 0
           /\ (scrollTop < 2 * scrollHeight
                 /\ scrollTop < MaxScrollTop(scrollHeight, clientHeight))
                => scrollTop' = scrollTop + 1]_vars

\* C19 as stated: a closeAndReset timeout that fires while the overlay is
\* open leaves isPlaying alone, and a timeout of an unmounted overlay
\* writes nothing.
C19_AsStated ==
    /\ [][(TimerFire /\ mounted /\ isVisible) => isPlaying' = isPlaying]_vars
    /\ [][(TimerFire /\ ~Head(timers).live) => isPlaying' = isPlaying]_vars

\* What holds of the code: the part about unmounted overlays.
DeadTimersWriteNothing ==
    [][(TimerFire /\ ~Head(timers).live) => isPlaying' = isPlaying]_vars

\* C20 as stated: once every load App started has resolved, the names on
\* display are those loaded from the current csvUrl.
C20_AsStated ==
    (variant = "inline" /\ mounted /\ ~isLoading /\ inflight = <<>>)
        => names.url = csvUrl

\* A tick that wraps: it finds the cursor at or past half the extent.
ResetTick == ScrollStep /\ wallMounted /\ AtHalf(scrollTop, scrollHeight)

\* The names overflow the container: there is something to scroll.
Overflowing == scrollHeight > clientHeight

\* C21 as stated: the loop never stalls.  If from some point on the wall
\* stays mounted and playing, with names that overflow the container, then
\* the cursor is reset to 0 again and again, for every content height and
\* container height.
C21_AsStated ==
    (<>[](wallMounted /\ isPlaying /\ Overflowing)) => []<><<ResetTick>>_vars

\* What holds of the code: the loop wraps forever when the DOM's maximum
\* scrollTop is at least half the extent.
\* scrollHeight - clientHeight >= scrollHeight / 2
HasRoom == clientHeight + clientHeight <= scrollHeight

WrapsWhenRoom ==
    (<>[](wallMounted /\ isPlaying /\ HasRoom)) => []<><<ResetTick>>_vars

\* C22 as stated: with the reduced-motion signal set and no toggle by the
\* user the cursor never advances, in the inline App from mount through
\* loading and display, and in the overlay from mount, opened or not.
C22_AsStated == reducedMotion /\ scrollTop = 0

\* What holds of the code: the inline App never scrolls, and the overlay
\* does not scroll once it has been opened (its effect has run with
\* isVisible true at least once: it is visible, or a close has been timed).
NoMotionOnceDerived ==
    /\ variant = "inline" => (scrollTop = 0 /\ rafQueue = {})
    /\ (variant = "overlay" /\ mounted /\ isVisible) => (~isPlaying /\ rafQueue = {})

\* Once the overlay has paused it stays paused and the cursor does not
\* advance (a new layout may clamp it back).
StaysPaused ==
    [][(variant = "overlay" /\ mounted /\ mounted' /\ ~isPlaying)
        => (~isPlaying' /\ scrollTop' <= scrollTop)]_vars

\* C23: while the overlay is not visible no keydown listener is registered,
\* so a spacebar or Escape keydown (any keydown) leaves isPlaying alone,
\* does not close anything or start a reset timer, and ends not
\* default-prevented; the listener exists exactly while the overlay is
\* mounted and visible.
C23_HiddenIgnoresKeys ==
    /\ [](variant = "overlay"
            => keyListeners = IF mounted /\ isVisible THEN 1 ELSE 0)
    /\ [][(variant = "overlay" /\ ~isVisible /\ KeyDown)
            => /\ isPlaying' = isPlaying
               /\ isVisible' = isVisible
               /\ timers' = timers
               /\ ~defaultPrevented']_vars

\* The overlay was open, a spacebar keydown was handled there, the overlay
\* has been closed, and a later keydown found no listener.
C23_Witness ==
    /\ variant = "overlay"
    /\ mounted
    /\ ~isVisible
    /\ keyListeners = 0
    /\ timers # <<>>
    /\ isPlaying # FromSignal
    /\ ~defaultPrevented

\* C24: every load App starts ends the loading state.  Whenever App shows
\* "Loading", it eventually shows the wall instead; and the step that
\* resumes loadCsvNames after the fetch ends with isLoading false and the
\* wall rendered with what the call returned, the empty sequence included,
\* whether the fetch succeeded, answered a non-success status or threw.
C24_LoadEnds ==
    /\ (mounted /\ isLoading) ~> (~isLoading /\ wallMounted)
    /\ [][(pc = "done" /\ pc' = "idle")
            => /\ ~isLoading'
               /\ wallMounted'
               /\ names'.url = Head(inflight)
               /\ names'.rows = IF result = <<>> THEN "empty" ELSE "names"]_vars

\* A load whose fetch threw has ended: the wall is shown, empty.
C24_Witness ==
    /\ pc = "idle"
    /\ server.kind = "networkError"
    /\ logged = 1
    /\ mounted
    /\ ~isLoading
    /\ wallMounted
    /\ inflight = <<>>
    /\ names.rows = "empty"

==========================================================================
